---------------------------- MODULE Spec2Model ----------------------------
(***************************************************************************)
(* Model of the infrastructure agent: the Reasoning/Acting graphs of       *)
(* app/main_agent.py (orchestrator), app/agents/device2_agent.py (host     *)
(* command delegate) and app/agents/netbox_agent.py (inventory delegate),  *)
(* the host-command capability and the inventory URL handling.             *)
(*                                                                         *)
(* Spec          one invocation of one agent's graph (call_llm/call_tool)  *)
(* SpecCmd       run_command_tool / run_linux_command on a testbed         *)
(* SpecUrl       get_netbox_data / create_netbox_data URL normalisation    *)
(* SpecRegistry  construction of the name -> handler registry              *)
(* SpecSession   main(): consecutive invocations on one session state      *)
(* SpecNested    the orchestrator's call_tool running a delegate's invoke  *)
(* SpecArgs      call_tool on calls whose arguments lack a declared field  *)
(* SpecWait      init_netbox.py: wait_for_netbox and the gate of main      *)
(* SpecDevice    init_netbox.py: create_device against a NetBox            *)
(***************************************************************************)
EXTENDS Integers, Sequences, FiniteSets, TLC

VARIABLES
    agent,       \* which compiled graph runs: orchestrator, device, netbox
    messages,    \* state["messages"]
    next,        \* state["next"]
    node,        \* graph position: the node to run, "END", "returned", "raised"
    steps,       \* nodes executed in this invocation
    fault,       \* the exception that left the graph, or "none"
    result,      \* what invoke handed to its caller, or Null
    lastStep,    \* history: the node execution just finished
    cmd,         \* SpecCmd: state of run_command_tool / run_linux_command
    url,         \* SpecUrl: state of the inventory handlers
    reg,         \* SpecRegistry: construction of a ToolExecutor
    sess,        \* SpecSession: st.session_state of main()
    nest,        \* SpecNested: a top-level call_tool and the delegate it runs
    boot         \* SpecWait, SpecDevice: init_netbox.py and the NetBox it talks to

loopVars == <<agent, messages, next, node, steps, fault, result, lastStep>>
vars == <<agent, messages, next, node, steps, fault, result, lastStep, cmd, url,
          reg, sess, nest, boot>>

Null == [none |-> TRUE]

(***************************************************************************)
(* Bounds                                                                  *)
(***************************************************************************)
\* the configured iteration budget the loop is measured against
MaxIterations == 3
\* node executions explored in one invocation: one more than the budget
StepCap == MaxIterations + 1

Contents == {"a", "b"}
CallIds == {"id1", "id2"}

(***************************************************************************)
(* Capability registries and declared tools                                *)
(***************************************************************************)
OrchestratorRegistry == {"device1_agent", "device2_agent", "netbox_agent"}
DeviceRegistry == {"run_command_tool"}
NetboxRegistry == {"get_netbox_data_tool", "create_netbox_data_tool"}
DeviceTools == {"run_command_tool"}

Agents == {"orchestrator", "device", "netbox"}

Registry(a) ==
    CASE a = "orchestrator" -> OrchestratorRegistry
      [] a = "device" -> DeviceRegistry
      [] a = "netbox" -> NetboxRegistry

\* a name no agent registers
UnknownTool == "no_such_tool"

(***************************************************************************)
(* The completion service: what llm.invoke can hand back                   *)
(***************************************************************************)
\* the names a completion may carry for an agent (the registry is not
\* enforced on the completion: any name may come back)
CallNames(a) ==
    CASE a = "orchestrator" -> {"device2_agent", "netbox_agent", UnknownTool}
      [] a = "device" -> {"run_command_tool", UnknownTool}
      [] a = "netbox" -> {"get_netbox_data_tool", "create_netbox_data_tool", UnknownTool}

ArgsFor(name) ==
    CASE name = "get_netbox_data_tool" -> [api_url |-> "u"]
      [] name = "create_netbox_data_tool" -> [api_url |-> "u", payload |-> "p"]
      [] OTHER -> [input_text |-> "t"]

Call(id, name) == [id |-> id, name |-> name, args |-> ArgsFor(name)]

\* batches of one or two calls; ids are unique within one assistant turn
Batches(a) ==
    {<<Call(i, n)>> : i \in CallIds, n \in CallNames(a)}
    \cup {<<Call(i, n), Call(j, m)>> :
            <<i, j>> \in {p \in CallIds \X CallIds : p[1] # p[2]},
            <<n, m>> \in CallNames(a) \X CallNames(a)}

Completions(a) ==
    [content : Contents, tool_calls : {<<>>} \cup Batches(a)]

(***************************************************************************)
(* Handlers: what a registered capability can hand back or raise           *)
(***************************************************************************)
Raise == [kind |-> "raise"]
Value(v) == [kind |-> "value", value |-> v]

DeviceResults ==
    {[status |-> "completed", device |-> "device2", output |-> "out"],
     [status |-> "error", error |-> "err"]}

NetboxResults == {[json |-> "data"], [error |-> "Request failed"]}

\* a delegate's invoke returns {"output": text}, or the exception that
\* left its graph
DelegateResults == {[output |-> c] : c \in Contents}

HandlerOutcomes(a) ==
    CASE a = "orchestrator" -> {Value(r) : r \in DelegateResults} \cup {Raise}
      [] a = "device" -> {Value(r) : r \in DeviceResults}
      [] a = "netbox" -> {Value(r) : r \in NetboxResults}

\* ToolExecutor.invoke: an unregistered name yields the invalid-tool text,
\* a registered one runs the handler, whose exception is not caught
InvalidTool(name) == [invalid_tool |-> name]

ToolExecutorInvoke(registry, action, out) ==
    IF action.tool \notin registry THEN Value(InvalidTool(action.tool)) ELSE out

\* f"Result: {result}"
ResultText(r) == [prefix |-> "Result: ", value |-> r]

ToolMessage(call, r) ==
    [tool_call_id |-> call.id, role |-> "tool", name |-> call.name,
     content |-> ResultText(r)]

Get(args, key, default) == IF key \in DOMAIN args THEN args[key] ELSE default


(***************************************************************************)
(* Reasoning step: call_llm of each graph                                  *)
(***************************************************************************)
AssistantCalls(response) ==
    [role |-> "assistant", content |-> response.content,
     tool_calls |-> response.tool_calls]

AssistantFinal(response) ==
    [role |-> "assistant", content |-> response.content]

create_orchestrator_call_llm(msgs, response) ==
    IF response.tool_calls # <<>>
    THEN [messages |-> msgs \o <<AssistantCalls(response)>>, next |-> "action"]
    ELSE [messages |-> msgs \o <<AssistantFinal(response)>>, next |-> "end"]

create_netbox_agent_call_llm(msgs, response) ==
    IF response.tool_calls # <<>>
    THEN [messages |-> msgs \o <<AssistantCalls(response)>>, next |-> "action"]
    ELSE [messages |-> msgs \o <<AssistantFinal(response)>>, next |-> "end"]

create_device_agent_call_llm(msgs, response) ==
    IF ~("run_command_tool" \in DeviceTools)
    THEN [messages |-> msgs \o <<AssistantFinal(response)>>, next |-> "end"]
    ELSE IF response.tool_calls # <<>>
    THEN [messages |-> msgs \o <<AssistantCalls(response)>>, next |-> "action"]
    ELSE [messages |-> msgs \o <<AssistantFinal(response)>>, next |-> "end"]

\* variant of call_llm that reads a request out of the text content
call_llm_parses_content(a, msgs, response) ==
    IF response.tool_calls # <<>> /\ response.content # "b"
    THEN [messages |-> msgs \o <<AssistantCalls(response)>>, next |-> "action"]
    ELSE [messages |-> msgs \o <<AssistantFinal(response)>>, next |-> "end"]

call_llm(a, msgs, response) ==
    CASE a = "orchestrator" -> create_orchestrator_call_llm(msgs, response)
      [] a = "device" -> create_device_agent_call_llm(msgs, response)
      [] a = "netbox" -> create_netbox_agent_call_llm(msgs, response)

(***************************************************************************)
(* Acting step: call_tool of each graph.  outs[i] is what the handler of   *)
(* call i does if it is invoked.  The loop result carries all_results, the *)
(* handler invocations made (log) and whether an exception left the loop.  *)
(***************************************************************************)
EmptyRun == [raised |-> FALSE, all_results |-> <<>>, log |-> <<>>]

\* variant of the loop body that puts the new tool message in front
Processed_prepend(acc, registry, tool_call, action, out) ==
    LET r == ToolExecutorInvoke(registry, action, out)
        log == IF action.tool \in registry THEN Append(acc.log, action) ELSE acc.log
    IN  IF r.kind = "raise"
        THEN [raised |-> TRUE, all_results |-> acc.all_results, log |-> log]
        ELSE [raised |-> FALSE,
              all_results |-> <<ToolMessage(tool_call, r.value)>> \o acc.all_results,
              log |-> log]

Processed(acc, registry, tool_call, action, out) ==
    LET r == ToolExecutorInvoke(registry, action, out)
        log == IF action.tool \in registry THEN Append(acc.log, action) ELSE acc.log
    IN  IF r.kind = "raise"
        THEN [raised |-> TRUE, all_results |-> acc.all_results, log |-> log]
        ELSE [raised |-> FALSE,
              all_results |-> Append(acc.all_results, ToolMessage(tool_call, r.value)),
              log |-> log]

RECURSIVE create_orchestrator_loop(_, _, _, _)
create_orchestrator_loop(tool_calls, outs, i, acc) ==
    IF i > Len(tool_calls) \/ acc.raised THEN acc
    ELSE LET tool_call == tool_calls[i]
             action == [tool |-> tool_call.name,
                        tool_input |-> Get(tool_call.args, "input_text", "")]
         IN  create_orchestrator_loop(tool_calls, outs, i + 1,
                 Processed(acc, OrchestratorRegistry, tool_call, action, outs[i]))

RECURSIVE create_device_agent_loop(_, _, _, _)
create_device_agent_loop(tool_calls, outs, i, acc) ==
    IF i > Len(tool_calls) \/ acc.raised THEN acc
    ELSE LET tool_call == tool_calls[i]
             action == [tool |-> tool_call.name,
                        tool_input |-> Get(tool_call.args, "input_text", "")]
         IN  create_device_agent_loop(tool_calls, outs, i + 1,
                 Processed(acc, DeviceRegistry, tool_call, action, outs[i]))

EmptyDict == [none |-> "{}"]

RECURSIVE create_netbox_agent_loop(_, _, _, _)
create_netbox_agent_loop(tool_calls, outs, i, acc) ==
    IF i > Len(tool_calls) \/ acc.raised THEN acc
    ELSE LET tool_call == tool_calls[i]
             tool_name == tool_call.name
             tool_args == tool_call.args
         IN  IF tool_name = "get_netbox_data_tool"
             THEN create_netbox_agent_loop(tool_calls, outs, i + 1,
                     Processed(acc, NetboxRegistry, tool_call,
                         [tool |-> tool_name,
                          tool_input |-> Get(tool_args, "api_url", "")],
                         outs[i]))
             ELSE IF tool_name = "create_netbox_data_tool"
             THEN create_netbox_agent_loop(tool_calls, outs, i + 1,
                     Processed(acc, NetboxRegistry, tool_call,
                         [tool |-> tool_name,
                          tool_input |-> [api_url |-> Get(tool_args, "api_url", ""),
                                          payload |-> Get(tool_args, "payload", EmptyDict)]],
                         outs[i]))
             ELSE create_netbox_agent_loop(tool_calls, outs, i + 1, acc)

\* the part of call_tool every graph shares: the two early returns, the
\* loop, messages + all_results
ToolStep(msgs, run) ==
    IF run.raised
    THEN [raised |-> TRUE, messages |-> msgs, next |-> "action", log |-> run.log]
    ELSE [raised |-> FALSE, messages |-> msgs \o run.all_results,
          next |-> "assistant", log |-> run.log]

NoCalls(msgs) ==
    [raised |-> FALSE, messages |-> msgs, next |-> "end", log |-> <<>>]

create_orchestrator_call_tool(msgs, outs) ==
    LET last_message == msgs[Len(msgs)]
    IN  IF "tool_calls" \notin DOMAIN last_message THEN NoCalls(msgs)
        ELSE IF last_message.tool_calls = <<>> THEN NoCalls(msgs)
        ELSE ToolStep(msgs,
                 create_orchestrator_loop(last_message.tool_calls, outs, 1, EmptyRun))

create_device_agent_call_tool(msgs, outs) ==
    LET last_message == msgs[Len(msgs)]
    IN  IF "tool_calls" \notin DOMAIN last_message THEN NoCalls(msgs)
        ELSE IF last_message.tool_calls = <<>> THEN NoCalls(msgs)
        ELSE ToolStep(msgs,
                 create_device_agent_loop(last_message.tool_calls, outs, 1, EmptyRun))

create_netbox_agent_call_tool(msgs, outs) ==
    LET last_message == msgs[Len(msgs)]
    IN  IF "tool_calls" \notin DOMAIN last_message THEN NoCalls(msgs)
        ELSE IF last_message.tool_calls = <<>> THEN NoCalls(msgs)
        ELSE ToolStep(msgs,
                 create_netbox_agent_loop(last_message.tool_calls, outs, 1, EmptyRun))

call_tool(a, msgs, outs) ==
    CASE a = "orchestrator" -> create_orchestrator_call_tool(msgs, outs)
      [] a = "device" -> create_device_agent_call_tool(msgs, outs)
      [] a = "netbox" -> create_netbox_agent_call_tool(msgs, outs)

(***************************************************************************)
(* The graphs: entry point and edges.  Every edge is added with add_edge,  *)
(* without a condition: no router reads state["next"].  After a node the   *)
(* run follows an edge the graph declares for it; which one is not decided *)
(* by anything in the state, so the model leaves it open.                  *)
(***************************************************************************)
EntryPoint == "assistant"

OrchestratorEdges ==
    {<<"assistant", "action">>, <<"action", "assistant">>,
     <<"assistant", "END">>, <<"action", "END">>}

DeviceEdges ==
    {<<"assistant", "action">>, <<"action", "assistant">>,
     <<"assistant", "END">>, <<"action", "END">>}

NetboxEdges ==
    {<<"assistant", "action">>, <<"action", "assistant">>,
     <<"assistant", "END">>, <<"action", "END">>}

Edges(a) ==
    CASE a = "orchestrator" -> OrchestratorEdges
      [] a = "device" -> DeviceEdges
      [] a = "netbox" -> NetboxEdges

Successors(a, n) == {e[2] : e \in {d \in Edges(a) : d[1] = n}}

(***************************************************************************)
(* invoke: the initial state it builds and the answer it extracts          *)
(***************************************************************************)
InputTexts == {"q"}

InitialState(input_text) ==
    [messages |-> <<[role |-> "human", content |-> input_text]>>,
     next |-> "assistant"]

assistant_messages(msgs) == SelectSeq(msgs, LAMBDA msg : msg.role = "assistant")

NoResponse == "No response generated from the agent."

\* faulty variant: the first assistant message instead of the last
final_message_first(msgs) ==
    LET am == assistant_messages(msgs)
    IN  IF am # <<>> THEN am[1].content ELSE NoResponse

final_message(msgs) ==
    LET am == assistant_messages(msgs)
    IN  IF am # <<>> THEN am[Len(am)].content ELSE NoResponse

ToolCallsOf(msgs) ==
    LET last_message == msgs[Len(msgs)]
    IN  IF "tool_calls" \in DOMAIN last_message THEN last_message.tool_calls ELSE <<>>

(***************************************************************************)
(* Spec: one invocation of one graph                                       *)
(***************************************************************************)
IdleCmd == [pc |-> "idle"]
IdleUrl == [pc |-> "idle"]
IdleReg == [pc |-> "idle"]
IdleSess == [pc |-> "idle"]
IdleNest == [pc |-> "idle"]
IdleBoot == [pc |-> "idle"]

Init ==
    /\ agent \in Agents
    /\ \E input_text \in InputTexts :
          /\ messages = InitialState(input_text).messages
          /\ next = InitialState(input_text).next
    /\ node = EntryPoint
    /\ steps = 0
    /\ fault = "none"
    /\ result = Null
    /\ lastStep = [kind |-> "invoke"]
    /\ cmd = IdleCmd
    /\ boot = IdleBoot
    /\ url = IdleUrl
    /\ reg = IdleReg
    /\ sess = IdleSess
    /\ nest = IdleNest

\* the assistant node: llm.invoke answers, call_llm returns, the graph
\* follows an edge out of "assistant"
CallLLM ==
    /\ node = "assistant"
    /\ steps < StepCap
    /\ \E response \in Completions(agent) :
          LET r == call_llm(agent, messages, response)
          IN  /\ messages' = r.messages
              /\ next' = r.next
              /\ lastStep' = [kind |-> "call_llm", before |-> messages,
                              response |-> response]
    /\ \E m \in Successors(agent, "assistant") : node' = m
    /\ steps' = steps + 1
    /\ UNCHANGED <<agent, fault, result, cmd, url, reg, sess, nest, boot>>

\* the assistant node when llm.invoke raises: nothing catches it
CallLLMFails ==
    /\ node = "assistant"
    /\ steps < StepCap
    /\ node' = "raised"
    /\ fault' = "CompletionFailure"
    /\ lastStep' = [kind |-> "call_llm_failed", before |-> messages]
    /\ steps' = steps + 1
    /\ UNCHANGED <<agent, messages, next, result, cmd, url, reg, sess, nest, boot>>

\* the action node
CallTool ==
    /\ node = "action"
    /\ steps < StepCap
    /\ \E outs \in [1 .. Len(ToolCallsOf(messages)) -> HandlerOutcomes(agent)] :
          LET r == call_tool(agent, messages, outs)
          IN  /\ lastStep' = [kind |-> "call_tool", before |-> messages,
                              tool_calls |-> ToolCallsOf(messages),
                              log |-> r.log, raised |-> r.raised]
              /\ IF r.raised
                 THEN /\ node' = "raised"
                      /\ fault' = "HandlerException"
                      /\ UNCHANGED <<messages, next>>
                 ELSE /\ messages' = r.messages
                      /\ next' = r.next
                      /\ \E m \in Successors(agent, "action") : node' = m
                      /\ UNCHANGED fault
    /\ steps' = steps + 1
    /\ UNCHANGED <<agent, result, cmd, url, reg, sess, nest, boot>>

\* the graph reached END: invoke extracts the final assistant message
InvokeReturn ==
    /\ node = "END"
    /\ result' = [output |-> final_message(messages)]
    /\ node' = "returned"
    /\ lastStep' = [kind |-> "return", before |-> messages]
    /\ UNCHANGED <<agent, messages, next, steps, fault, cmd, url, reg, sess, nest, boot>>

Next == CallLLM \/ CallLLMFails \/ CallTool \/ InvokeReturn

Spec == Init /\ [][Next]_vars


(***************************************************************************)
(* Properties of Spec                                                      *)
(***************************************************************************)
Last(s) == s[Len(s)]
Appended == SubSeq(messages, Len(lastStep.before) + 1, Len(messages))
ReasoningDone == lastStep.kind = "call_llm"
ActingDone == lastStep.kind = "call_tool"
ActingReturned == ActingDone /\ ~lastStep.raised
BudgetExceededTurn(m) == m.role = "assistant" /\ m.content = "BudgetExceeded"
ErrorTurn(m) == "error" \in DOMAIN m
AssistantIdx(msgs) == {i \in 1 .. Len(msgs) : msgs[i].role = "assistant"}
MaxOf(S) == CHOOSE x \in S : \A y \in S : y <= x

\* The handlers of the orchestrator are the delegates' invoke.  What
\* HandlerOutcomes("orchestrator") lists is what a delegate run does: it
\* returns {"output": text} (DelegateReturnsOutput holds), or an exception
\* leaves it (DelegateNeverRaises is violated).
DelegateReturnsOutput ==
    (agent \in {"device", "netbox"} /\ node = "returned") => result \in DelegateResults

DelegateNeverRaises == ~(agent \in {"device", "netbox"} /\ node = "raised")

EveryReasoningRequestedCalls ==
    \A i \in AssistantIdx(messages) : "tool_calls" \in DOMAIN messages[i]

\* C1: a run is Done within MaxIterations node executions, or it was ended
\* with a BudgetExceeded final turn; no run goes on past the budget, also
\* when the completion requests capability calls on every Reasoning step.
C1_RunEndsWithinBudget ==
    (steps > MaxIterations /\ EveryReasoningRequestedCalls) =>
        (node \in {"END", "returned"} /\ BudgetExceededTurn(Last(messages)))

\* C2: after a Reasoning step whose completion has no capability call the
\* conversation is the old one plus one assistant turn without tool_calls,
\* the control field is "end", and no Acting step follows.
C2_NoCallIsTerminal ==
    /\ (ReasoningDone /\ lastStep.response.tool_calls = <<>>) =>
          /\ messages = lastStep.before
                 \o <<[role |-> "assistant", content |-> lastStep.response.content]>>
          /\ next = "end"
          /\ node # "action"
    /\ ActingDone => "tool_calls" \in DOMAIN Last(lastStep.before)

\* C3: an Acting step on a batch of N >= 1 calls appends exactly N tool
\* turns, one per call, carrying that call's id (stated for the steps that
\* return).
C3_OneResultPerCall ==
    (ActingReturned /\ lastStep.tool_calls # <<>>) =>
        /\ Len(Appended) = Len(lastStep.tool_calls)
        /\ \A i \in 1 .. Len(lastStep.tool_calls) :
              Cardinality({j \in 1 .. Len(Appended) :
                  /\ Appended[j].role = "tool"
                  /\ Appended[j].tool_call_id = lastStep.tool_calls[i].id}) = 1

\* C4: an Acting step that meets a call whose name is not registered appends
\* a tool turn for that call with an error payload and hands control back to
\* Reasoning.
C4_UnknownNameYieldsErrorResult ==
    ActingReturned =>
        \A i \in 1 .. Len(lastStep.tool_calls) :
            LET c == lastStep.tool_calls[i]
            IN  c.name \notin Registry(agent) =>
                    /\ next = "assistant"
                    /\ \E j \in 1 .. Len(Appended) :
                          /\ Appended[j].tool_call_id = c.id
                          /\ Appended[j].name = c.name
                          /\ Appended[j].content = ResultText(InvalidTool(c.name))

\* C5: an exception raised by a handler does not leave the Acting step: the
\* step returns, with a tool turn for the call, and control goes back to
\* Reasoning.
C5_HandlerExceptionStaysInActing ==
    ActingDone => (~lastStep.raised /\ fault # "HandlerException")

\* C6: a failure of the completion service ends the loop in Done with an
\* error-flagged final turn appended; it does not escape as a fault.
C6_CompletionFailureEndsInDone ==
    lastStep.kind = "call_llm_failed" =>
        /\ fault = "none"
        /\ next = "end"
        /\ Len(messages) = Len(lastStep.before) + 1
        /\ ErrorTurn(Last(messages))

\* C7: every terminal path of invoke hands {output: text} to the caller; no
\* path ends with a fault.
C7_InvokeAlwaysReturns ==
    /\ node # "raised"
    /\ node = "returned" => (DOMAIN result = {"output"})

\* C8: the output of invoke is the content of the last assistant turn of the
\* final conversation; the fallback text only when there is none.
C8_OutputIsLastAssistant ==
    node = "returned" =>
        IF AssistantIdx(messages) # {}
        THEN result.output = messages[MaxOf(AssistantIdx(messages))].content
        ELSE result.output = NoResponse

C8_Witness ==
    /\ node = "returned"
    /\ \E i, j \in AssistantIdx(messages) :
          i < j /\ messages[i].content # messages[j].content
    /\ Last(messages).role = "tool"


(***************************************************************************)
(* Text.  A string is a sequence of tokens; each token stands for a fixed  *)
(* piece of text, so startswith, replace, split and strip work on it as    *)
(* they do on the characters.                                              *)
(***************************************************************************)
RECURSIVE Strings(_, _)
Strings(alphabet, n) ==
    IF n = 0 THEN {<<>>}
    ELSE LET shorter == Strings(alphabet, n - 1)
         IN  shorter \cup {Append(t, c) : t \in {x \in shorter : Len(x) = n - 1},
                                          c \in alphabet}

Tail_(t, k) == SubSeq(t, k, Len(t))

startswith(t, prefix) ==
    Len(t) >= Len(prefix) /\ SubSeq(t, 1, Len(prefix)) = prefix

RECURSIVE lstrip(_, _)
lstrip(t, chars) ==
    IF t # <<>> /\ t[1] \in chars THEN lstrip(Tail(t), chars) ELSE t

RECURSIVE rstrip(_, _)
rstrip(t, chars) ==
    IF t # <<>> /\ t[Len(t)] \in chars THEN rstrip(SubSeq(t, 1, Len(t) - 1), chars) ELSE t

strip(t) == rstrip(lstrip(t, {" "}), {" "})

\* str.replace(old, ""): every occurrence of old, left to right
RECURSIVE remove_all(_, _)
remove_all(t, old) ==
    IF t = <<>> THEN <<>>
    ELSE IF startswith(t, old) THEN remove_all(Tail_(t, Len(old) + 1), old)
    ELSE <<t[1]>> \o remove_all(Tail(t), old)

(***************************************************************************)
(* SpecCmd: run_command_tool and run_linux_command                         *)
(***************************************************************************)
MaxTextLen == 4
CmdAlphabet == {"device1", "device2", "ghost", ":", " ", "ls"}
TestbedDevices == {<<"device1">>, <<"device2">>}
DefaultDevice == <<"device2">>

\* what the testbed and the device do during one call
CmdEnvs ==
    [load_ok : BOOLEAN, is_connected : BOOLEAN, connect_ok : BOOLEAN,
     execute_ok : BOOLEAN, disconnect_ok : BOOLEAN]

RawOutput == "raw output"
NotFound(device_name) == <<"Device '", device_name, "' not found in testbed.">>

Raised(e, ops, connected) ==
    [exc |-> TRUE, error |-> e, ops |-> ops, connected |-> connected]

Returned(ret, ops, connected) ==
    [exc |-> FALSE, ret |-> ret, ops |-> ops, connected |-> connected]

\* the statements of the try block, up to the return or the first exception
run_linux_command_try(command, device_name, env) ==
    IF ~env.load_ok THEN Raised("load failed", <<>>, env.is_connected)
    ELSE IF device_name \notin TestbedDevices
    THEN Returned([status |-> "error", error |-> NotFound(device_name)],
                  <<>>, env.is_connected)
    ELSE IF ~env.is_connected /\ ~env.connect_ok
    THEN Raised("connect failed", <<"connect">>, FALSE)
    ELSE LET ops1 == IF env.is_connected THEN <<>> ELSE <<"connect">>
         IN  IF ~env.execute_ok
             THEN Raised("execute failed", ops1 \o <<"execute">>, TRUE)
             ELSE IF ~env.disconnect_ok
             THEN Raised("disconnect failed",
                         ops1 \o <<"execute", "disconnect">>, TRUE)
             ELSE Returned([status |-> "completed", device |-> device_name,
                            output |-> RawOutput],
                           ops1 \o <<"execute", "disconnect">>, FALSE)

\* faulty variant: no except clause, the exception leaves the function
run_linux_command_uncaught(command, device_name, env) ==
    run_linux_command_try(command, device_name, env)

run_linux_command(command, device_name, env) ==
    LET t == run_linux_command_try(command, device_name, env)
    IN  IF t.exc
        THEN Returned([status |-> "error", error |-> t.error], t.ops, t.connected)
        ELSE t

FirstColon(t) == CHOOSE k \in 1 .. Len(t) : t[k] = ":" /\ \A j \in 1 .. k - 1 : t[j] # ":"

\* variant of run_command_tool that splits at the last ":" of the text
LastColon(t) == CHOOSE k \in 1 .. Len(t) : t[k] = ":" /\ \A j \in k + 1 .. Len(t) : t[j] # ":"
run_command_tool_args_rsplit(input_text) ==
    IF \E k \in 1 .. Len(input_text) : input_text[k] = ":"
    THEN LET k == LastColon(input_text)
         IN  [device_name |-> strip(SubSeq(input_text, 1, k - 1)),
              command |-> strip(Tail_(input_text, k + 1))]
    ELSE [device_name |-> DefaultDevice, command |-> strip(input_text)]

\* the device name and the command run_command_tool passes on
run_command_tool_args(input_text) ==
    IF \E k \in 1 .. Len(input_text) : input_text[k] = ":"
    THEN LET k == FirstColon(input_text)
         IN  [device_name |-> strip(SubSeq(input_text, 1, k - 1)),
              command |-> strip(Tail_(input_text, k + 1))]
    ELSE [device_name |-> DefaultDevice, command |-> strip(input_text)]

run_command_tool(input_text, env) ==
    LET a == run_command_tool_args(input_text)
    IN  run_linux_command(a.command, a.device_name, env)

InitLoopIdle ==
    /\ agent = "device"
    /\ messages = <<>>
    /\ next = "assistant"
    /\ node = "idle"
    /\ steps = 0
    /\ fault = "none"
    /\ result = Null
    /\ lastStep = [kind |-> "none"]

\* agents/main_agent.py: device2_agent.invoke(f"device2: {input_text}")
device2_agent_func_text(input_text) == <<"device2", ":", " ">> \o input_text

\* how a text comes to the tool: as written, or prefixed by the wrapper
Via == {"direct", "device2_agent_func"}
Delivered(via, t) ==
    IF via = "device2_agent_func" THEN device2_agent_func_text(t) ELSE t

InitCmd ==
    /\ InitLoopIdle
    /\ url = IdleUrl
    /\ boot = IdleBoot
    /\ reg = IdleReg
    /\ sess = IdleSess
    /\ nest = IdleNest
    /\ \E t \in Strings(CmdAlphabet, MaxTextLen), via \in Via :
          cmd = [pc |-> "ready", input_text |-> Delivered(via, t),
                 via |-> via, text |-> t]

RunCommandTool ==
    /\ cmd.pc = "ready"
    /\ \E env \in CmdEnvs :
          LET a == run_command_tool_args(cmd.input_text)
              r == run_command_tool(cmd.input_text, env)
          IN  cmd' = [pc |-> "done", input_text |-> cmd.input_text,
                      via |-> cmd.via, text |-> cmd.text, env |-> env,
                      device_name |-> a.device_name, command |-> a.command,
                      out |-> r]
    /\ UNCHANGED <<loopVars, url, reg, sess, nest, boot>>

NextCmd == RunCommandTool

SpecCmd == InitCmd /\ [][NextCmd]_vars

\* C9: run_linux_command never raises; an unknown device, a connection
\* failure and an execution failure give status "error" with an error text
\* (the not-found text for an unknown device), and status "completed" comes
\* with the raw output and only when the command ran.
C9_RunLinuxCommandNeverRaises ==
    cmd.pc = "done" =>
        /\ ~cmd.out.exc
        /\ cmd.out.ret.status \in {"completed", "error"}
        /\ cmd.out.ret.status = "error" => "error" \in DOMAIN cmd.out.ret
        /\ (cmd.env.load_ok /\ cmd.device_name \notin TestbedDevices) =>
              /\ cmd.out.ret.status = "error"
              /\ cmd.out.ret.error = NotFound(cmd.device_name)
        /\ (cmd.env.load_ok /\ cmd.device_name \in TestbedDevices
              /\ ~cmd.env.is_connected /\ ~cmd.env.connect_ok) =>
              cmd.out.ret.status = "error"
        /\ (cmd.env.load_ok /\ cmd.device_name \in TestbedDevices
              /\ (cmd.env.is_connected \/ cmd.env.connect_ok)
              /\ ~cmd.env.execute_ok) =>
              cmd.out.ret.status = "error"
        /\ cmd.out.ret.status = "completed" =>
              /\ cmd.out.ret.output = RawOutput
              /\ \E i \in 1 .. Len(cmd.out.ops) : cmd.out.ops[i] = "execute"
              /\ cmd.env.execute_ok

C9_Witness ==
    /\ cmd.pc = "done"
    /\ cmd.device_name \in TestbedDevices
    /\ cmd.env.load_ok /\ ~cmd.env.is_connected /\ cmd.env.connect_ok
    /\ ~cmd.env.execute_ok
    /\ cmd.out.ops = <<"connect", "execute">>
    /\ cmd.out.ret.status = "error"


(***************************************************************************)
(* SpecUrl: get_netbox_data / create_netbox_data and NetBoxController      *)
(***************************************************************************)
MaxUrlLen == 6
\* the token NETBOX_URL stands for "http://netbox:8080" (no trailing slash)
NETBOX_URL == <<"http://netbox:8080">>
UrlAlphabet == {"http://netbox:8080", "/", "api", "dcim"}
ApiPrefix == <<"/", "api", "/">>

\* variant of get_netbox_data that leaves the base URL in place
get_netbox_data_url_keeps_base(api_url) ==
    IF ~startswith(api_url, ApiPrefix)
    THEN ApiPrefix \o lstrip(api_url, {"/"})
    ELSE api_url

\* get_netbox_data: strip the base URL, make sure of the /api/ prefix
get_netbox_data_url(api_url) ==
    LET stripped == IF startswith(api_url, NETBOX_URL)
                    THEN remove_all(api_url, NETBOX_URL)
                    ELSE api_url
    IN  IF ~startswith(stripped, ApiPrefix)
        THEN ApiPrefix \o lstrip(stripped, {"/"})
        ELSE stripped

\* create_netbox_data: the same two statements
create_netbox_data_url(api_url) ==
    LET stripped == IF startswith(api_url, NETBOX_URL)
                    THEN remove_all(api_url, NETBOX_URL)
                    ELSE api_url
    IN  IF ~startswith(stripped, ApiPrefix)
        THEN ApiPrefix \o lstrip(stripped, {"/"})
        ELSE stripped

\* NetBoxController.get_api / post_api: f"{self.netbox}/{api_url.lstrip('/')}"
full_url(netbox, api_url) == netbox \o <<"/">> \o lstrip(api_url, {"/"})

\* the answer of the server: json, or a RequestException turned into an error
ServerAnswers == {[json |-> "data"], [error |-> "Request failed"]}

InitUrl ==
    /\ InitLoopIdle
    /\ cmd = IdleCmd
    /\ boot = IdleBoot
    /\ reg = IdleReg
    /\ sess = IdleSess
    /\ nest = IdleNest
    /\ \E u \in Strings(UrlAlphabet, MaxUrlLen) :
          url = [pc |-> "ready", api_url |-> u]

get_netbox_data ==
    /\ url.pc = "ready"
    /\ \E answer \in ServerAnswers :
          url' = [pc |-> "done", api_url |-> url.api_url, method |-> "GET",
                  full_url |-> full_url(NETBOX_URL, get_netbox_data_url(url.api_url)),
                  ret |-> answer]
    /\ UNCHANGED <<loopVars, cmd, reg, sess, nest, boot>>

create_netbox_data ==
    /\ url.pc = "ready"
    /\ \E answer \in ServerAnswers :
          url' = [pc |-> "done", api_url |-> url.api_url, method |-> "POST",
                  full_url |-> full_url(NETBOX_URL, create_netbox_data_url(url.api_url)),
                  ret |-> answer]
    /\ UNCHANGED <<loopVars, cmd, reg, sess, nest, boot>>

NextUrl == get_netbox_data \/ create_netbox_data

SpecUrl == InitUrl /\ [][NextUrl]_vars

\* a path fragment below the API root: it starts with a segment name, holds
\* no base URL and no "api" segment
Fragments ==
    {p \in Strings({"/", "dcim"}, MaxUrlLen) : p # <<>> /\ p[1] = "dcim"}

\* the forms of argument the handlers accept
AcceptedForms(p) ==
    {p, <<"/">> \o p, <<"api", "/">> \o p, ApiPrefix \o p,
     NETBOX_URL \o ApiPrefix \o p}

\* C10: for a bare fragment with or without a leading slash, a fragment
\* starting with api/ or /api/ and a fully qualified URL, the URL dispatched
\* is the base URL once, then /api/ once, then the fragment.
C10_CanonicalPrefixOnce ==
    url.pc = "done" =>
        \A p \in Fragments :
            url.api_url \in AcceptedForms(p) =>
                url.full_url = NETBOX_URL \o ApiPrefix \o p

\* the fully qualified form of a fragment: base URL + "/api/" + fragment
FullyQualified(p) == NETBOX_URL \o ApiPrefix \o p

Blanks(n) == [i \in 1 .. n |-> " "]
IsStripOf(c, r) ==
    /\ c # <<>> => (c[1] # " " /\ c[Len(c)] # " ")
    /\ \E i \in 0 .. Len(r), j \in 0 .. Len(r) : r = Blanks(i) \o c \o Blanks(j)

DeviceNames == {"device1", "device2", "ghost"}

MaxEntries == 3
RegistryNames == {"device1_agent", "device2_agent", "netbox_agent"}
RegistryHandlers == {"device1_agent_func", "device2_agent_func", "netbox_agent_func"}
RegistryEntries == [name : RegistryNames, handler : RegistryHandlers]

\* the entries written between the braces, in the order written
Displays(n) == UNION {[1 .. k -> RegistryEntries] : k \in 0 .. n}

\* a dict display binds the keys left to right: a key written again takes
\* the later value, and nothing is raised
dict_display(entries) ==
    [n \in {entries[i].name : i \in DOMAIN entries} |->
        LET last == CHOOSE i \in DOMAIN entries :
                        /\ entries[i].name = n
                        /\ \A j \in DOMAIN entries : entries[j].name = n => j <= i
        IN  entries[last].handler]

InitRegistry ==
    /\ InitLoopIdle
    /\ cmd = IdleCmd
    /\ boot = IdleBoot
    /\ url = IdleUrl
    /\ sess = IdleSess
    /\ nest = IdleNest
    /\ \E d \in Displays(MaxEntries) : reg = [pc |-> "ready", entries |-> d]

\* module level of main_agent.py: the registry is built before any invoke
ConstructToolExecutor ==
    /\ reg.pc = "ready"
    /\ reg' = [pc |-> "constructed", entries |-> reg.entries,
               tools |-> dict_display(reg.entries)]
    /\ UNCHANGED <<loopVars, cmd, url, sess, nest, boot>>

NextRegistry == ConstructToolExecutor

SpecRegistry == InitRegistry /\ [][NextRegistry]_vars

HasDuplicateName(entries) ==
    \E i, j \in DOMAIN entries : i # j /\ entries[i].name = entries[j].name

MaxSubSteps == 3

\* device2_agent_func -> device2_invoke, netbox_agent_func -> netbox_invoke
DelegateOf(name) == IF name = "device2_agent" THEN "device" ELSE "netbox"

\* the batch of the assistant turn call_tool works on: one or two calls
NestedBatches ==
    {<<Call("id1", n)>> : n \in CallNames("orchestrator")}
    \cup {<<Call("id1", n), Call("id2", m)>> :
            <<n, m>> \in CallNames("orchestrator") \X CallNames("orchestrator")}

\* the content of the last assistant turn of a conversation
LastAssistantContent(msgs) ==
    IF AssistantIdx(msgs) = {} THEN NoResponse
    ELSE msgs[MaxOf(AssistantIdx(msgs))].content

InitNested ==
    /\ InitLoopIdle
    /\ cmd = IdleCmd
    /\ boot = IdleBoot
    /\ url = IdleUrl
    /\ reg = IdleReg
    /\ sess = IdleSess
    /\ \E batch \in NestedBatches :
          nest = [pc |-> "loop",
                  messages |-> InitialState("q").messages
                                  \o <<AssistantCalls([content |-> "a", tool_calls |-> batch])>>,
                  tool_calls |-> batch, i |-> 1, all_results |-> <<>>,
                  last |-> Null]

\* one turn of "for tool_call in tool_calls": tool_executor.invoke(action)
\* answers at once for a name that is not registered, and calls the
\* delegate's invoke otherwise
NestedDispatch ==
    /\ nest.pc = "loop"
    /\ nest.i <= Len(nest.tool_calls)
    /\ LET tool_call == nest.tool_calls[nest.i]
           tool_input == Get(tool_call.args, "input_text", "")
       IN  IF tool_call.name \notin OrchestratorRegistry
           THEN /\ nest' = [nest EXCEPT
                               !.all_results = @ \o <<ToolMessage(tool_call, InvalidTool(tool_call.name))>>,
                               !.i = @ + 1]
                /\ UNCHANGED loopVars
           ELSE /\ nest' = [nest EXCEPT !.pc = "delegate"]
                /\ agent' = DelegateOf(tool_call.name)
                /\ messages' = InitialState(tool_input).messages
                /\ next' = InitialState(tool_input).next
                /\ node' = EntryPoint
                /\ steps' = 0
                /\ fault' = "none"
                /\ result' = Null
                /\ lastStep' = [kind |-> "invoke"]
    /\ UNCHANGED <<cmd, url, reg, sess, boot>>

\* a node of the delegate's graph runs
DelegateStep ==
    /\ nest.pc = "delegate"
    /\ steps < MaxSubSteps
    /\ (CallLLM \/ CallLLMFails \/ CallTool)

\* the delegate's graph has reached END: invoke builds its answer
DelegateReturn ==
    /\ nest.pc = "delegate"
    /\ InvokeReturn

\* result = tool_executor.invoke(action) has its value: the tool message is
\* built and the loop goes to the next call
NestedResult ==
    /\ nest.pc = "delegate"
    /\ node = "returned"
    /\ LET tool_call == nest.tool_calls[nest.i]
       IN  nest' = [nest EXCEPT
                       !.pc = "loop",
                       !.all_results = @ \o <<ToolMessage(tool_call, result)>>,
                       !.i = @ + 1,
                       !.last = [call |-> tool_call, returned |-> TRUE,
                                 answer |-> LastAssistantContent(messages)]]
    /\ agent' = "device"
    /\ messages' = <<>>
    /\ next' = "assistant"
    /\ node' = "idle"
    /\ steps' = 0
    /\ fault' = "none"
    /\ result' = Null
    /\ lastStep' = [kind |-> "none"]
    /\ UNCHANGED <<cmd, url, reg, sess, boot>>

\* the delegate's invoke raised: nothing catches it in call_tool
NestedRaise ==
    /\ nest.pc = "delegate"
    /\ node = "raised"
    /\ nest' = [nest EXCEPT
                   !.pc = "raised",
                   !.last = [call |-> nest.tool_calls[nest.i], returned |-> FALSE,
                             answer |-> LastAssistantContent(messages)]]
    /\ UNCHANGED <<loopVars, cmd, url, reg, sess, boot>>

\* after the loop: messages = messages + all_results
NestedFinish ==
    /\ nest.pc = "loop"
    /\ nest.i > Len(nest.tool_calls)
    /\ nest' = [nest EXCEPT !.pc = "done", !.messages = @ \o nest.all_results]
    /\ UNCHANGED <<loopVars, cmd, url, reg, sess, boot>>

NextNested ==
    \/ NestedDispatch
    \/ DelegateStep
    \/ DelegateReturn
    \/ NestedResult
    \/ NestedRaise
    \/ NestedFinish

SpecNested == InitNested /\ [][NextNested]_vars

\* the tool turn call_tool built for the delegate call just finished carries
\* "Result: " + {"output": answer}, answer being the content of the
\* delegate's last assistant turn
PayloadIsAnswer ==
    \E j \in 1 .. Len(nest.all_results) :
        /\ nest.all_results[j].role = "tool"
        /\ nest.all_results[j].tool_call_id = nest.last.call.id
        /\ nest.all_results[j].name = nest.last.call.name
        /\ nest.all_results[j].content = ResultText([output |-> nest.last.answer])

\* holds: a delegate that returns hands its final answer to the top level
ReturnedDelegateAnswerIsPayload ==
    (nest.last # Null /\ nest.last.returned) => PayloadIsAnswer

\* C14: a call dispatched to a delegate makes the delegate run its own
\* graph to END, and the tool turn appended at the top level for the call
\* carries the delegate's final answer, the content of its last assistant
\* turn.
C14_DelegateAnswerIsPayload ==
    nest.last # Null => (nest.last.returned /\ PayloadIsAnswer)


(***************************************************************************)
(* Properties of Spec: the control field and the order of the steps        *)
(***************************************************************************)
\* C15: the control field next moves only Reasoning -> Acting, Reasoning ->
\* Done, Acting -> Reasoning, Acting -> Done: the node that runs is the one
\* the field names, no node runs once the field says "end" (Done has no
\* successor), and a Reasoning step sets the field to "action" exactly when
\* the completion carries at least one call.
C15_ControlFieldTransitions ==
    /\ node \in {"assistant", "action"} => next = node
    /\ ReasoningDone =>
          (next = "action" <=> lastStep.response.tool_calls # <<>>)
    /\ ReasoningDone => next \in {"action", "end"}
    /\ ActingReturned => next \in {"assistant", "end"}


(***************************************************************************)
(* SpecSession: main().  st.session_state.orchestrator_state lives for the *)
(* session; every chat input appends a human turn to it and hands it to    *)
(* orchestrator.invoke; what invoke returns replaces it.  Here steps       *)
(* counts the nodes executed since the session began.                      *)
(***************************************************************************)
MaxPrompts == 2
MaxSessionSteps == 3
Prompts == {"q"}

\* if "messages" not in st.session_state: ...
InitSession ==
    /\ agent = "orchestrator"
    /\ messages = <<>>
    /\ next = "assistant"
    /\ node = "idle"
    /\ steps = 0
    /\ fault = "none"
    /\ result = Null
    /\ lastStep = [kind |-> "none"]
    /\ cmd = IdleCmd
    /\ boot = IdleBoot
    /\ url = IdleUrl
    /\ reg = IdleReg
    /\ nest = IdleNest
    /\ sess = [pc |-> "waiting",
               orchestrator_state |-> [messages |-> <<>>, next |-> "assistant"],
               prompts |-> 0, aborted |-> FALSE]

\* if prompt := st.chat_input(...): the human turn is appended to the
\* stored state and orchestrator.invoke starts on it at the entry point
ChatInput ==
    /\ sess.pc = "waiting"
    /\ sess.prompts < MaxPrompts
    /\ \E prompt \in Prompts :
          LET state == [sess.orchestrator_state EXCEPT
                           !.messages = Append(@, [role |-> "human", content |-> prompt])]
          IN  /\ sess' = [sess EXCEPT !.pc = "invoking",
                                      !.orchestrator_state = state,
                                      !.prompts = @ + 1]
              /\ messages' = state.messages
              /\ next' = state.next
    /\ node' = EntryPoint
    /\ fault' = "none"
    /\ lastStep' = [kind |-> "prompt", before |-> messages]
    /\ UNCHANGED <<agent, steps, result, cmd, url, reg, nest, boot>>

\* a node of the orchestrator's graph runs
SessionStep ==
    /\ sess.pc = "invoking"
    /\ steps < MaxSessionSteps
    /\ (CallLLM \/ CallLLMFails \/ CallTool)

\* result = orchestrator.invoke(...); st.session_state.orchestrator_state = result
StoreResult ==
    /\ sess.pc = "invoking"
    /\ node = "END"
    /\ sess' = [sess EXCEPT !.pc = "waiting",
                            !.orchestrator_state = [messages |-> messages, next |-> next]]
    /\ node' = "idle"
    /\ lastStep' = [kind |-> "stored", before |-> messages]
    /\ UNCHANGED <<agent, messages, next, steps, fault, result, cmd, url, reg, nest, boot>>

\* orchestrator.invoke raised: the script run ends there, the stored state
\* keeps the human turn and nothing of what the graph had appended
ScriptAborted ==
    /\ sess.pc = "invoking"
    /\ node = "raised"
    /\ sess' = [sess EXCEPT !.pc = "waiting", !.aborted = TRUE]
    /\ UNCHANGED <<loopVars, cmd, url, reg, nest, boot>>

NextSession == ChatInput \/ SessionStep \/ StoreResult \/ ScriptAborted

SpecSession == InitSession /\ [][NextSession]_vars

IsPrefix(s, t) == Len(s) <= Len(t) /\ SubSeq(t, 1, Len(s)) = s

\* C16: every invocation of the graph starts with the control field at
\* Reasoning ("assistant"), the second and later invocations of a session
\* included: the value the previous invocation ended with is not the value
\* the next one starts with.
C16_InvocationStartsInReasoning ==
    lastStep.kind = "prompt" => next = "assistant"

\* holds: the node that runs first is the entry point, whatever the field
FirstNodeIsEntryPoint ==
    lastStep.kind = "prompt" => node = "assistant"

\* C17: the conversation only grows: after a Reasoning step, an Acting step
\* or a new human input of a session, the sequence of turns seen before is
\* an unchanged prefix of the new one.
C17_ConversationAppendOnly ==
    lastStep.kind \in {"call_llm", "call_tool", "prompt"} =>
        IsPrefix(lastStep.before, messages)

\* holds: the conversation only grows in a session no invocation of which
\* was left by an exception
AppendOnlyWithoutAbort ==
    (lastStep.kind \in {"call_llm", "call_tool", "prompt"} /\ ~sess.aborted) =>
        IsPrefix(lastStep.before, messages)


(***************************************************************************)
(* Properties of Spec: the batch of one Acting step                        *)
(***************************************************************************)
\* C18: the tool turns one Acting step appends stand in the order of the
\* calls of the assistant turn that asked for them: of two appended turns,
\* the earlier one answers the call at the smaller position of the batch.
C18_ResultsInCallOrder ==
    ActingReturned =>
        \A a, b \in 1 .. Len(Appended) :
            a < b =>
                \E i, j \in 1 .. Len(lastStep.tool_calls) :
                    /\ i < j
                    /\ lastStep.tool_calls[i].id = Appended[a].tool_call_id
                    /\ lastStep.tool_calls[j].id = Appended[b].tool_call_id

C18_Witness ==
    /\ ActingReturned
    /\ Len(Appended) = 2
    /\ lastStep.tool_calls[1].id = "id2"
    /\ Appended[1].tool_call_id = "id2"
    /\ Appended[2].tool_call_id = "id1"
    /\ Appended[1].content # Appended[2].content

\* the order of the steps alone: Acting runs after a Reasoning step,
\* Reasoning at the start or after an Acting step (holds)
StepsAlternate ==
    /\ node = "action" => lastStep.kind = "call_llm"
    /\ node = "assistant" => lastStep.kind \in {"invoke", "call_tool"}

\* C19: a Reasoning step and an Acting step never run at the same time, the
\* steps run one after another as Reasoning, Acting, Reasoning, ..., and
\* the run does not reach END while the Acting step that the last
\* Reasoning step asked for has not run.
C19_NoEndBeforeScheduledActing ==
    /\ node = "action" => lastStep.kind = "call_llm"
    /\ node = "assistant" => lastStep.kind \in {"invoke", "call_tool"}
    /\ node = "END" =>
          ~(ReasoningDone /\ lastStep.response.tool_calls # <<>>)

\* the calls of the batch whose name has a handler
HandledCalls(tool_calls) ==
    SelectSeq(tool_calls, LAMBDA c : c.name \in Registry(agent))

\* C20: within one Acting step the handler of every call of the batch is
\* invoked, also after a call at an earlier position gave an error payload
\* or its handler raised; the results of the later calls are appended.
C20_EveryHandlerInvoked ==
    ActingDone =>
        /\ Len(lastStep.log) = Len(HandledCalls(lastStep.tool_calls))
        /\ \A k \in 1 .. Len(lastStep.log) :
              lastStep.log[k].tool = HandledCalls(lastStep.tool_calls)[k].name
        /\ \A j \in 2 .. Len(lastStep.tool_calls) :
              lastStep.tool_calls[j].name \in Registry(agent) =>
                  \E k \in 1 .. Len(Appended) :
                      Appended[k].tool_call_id = lastStep.tool_calls[j].id

\* holds: a handler that returns an error payload does not stop the batch
ErrorPayloadDoesNotStopBatch ==
    ActingReturned =>
        Len(lastStep.log) = Len(HandledCalls(lastStep.tool_calls))


(***************************************************************************)
(* SpecArgs: one graph invocation in which the completion may carry calls  *)
(* whose args lack a field the tool declares as required (the completion   *)
(* service does not enforce the schema)                                    *)
(***************************************************************************)
MaxArgsSteps == 2

\* "required": [...] of each declared tool
Required(name) ==
    CASE name = "get_netbox_data_tool" -> {"api_url"}
      [] name = "create_netbox_data_tool" -> {"api_url", "payload"}
      [] OTHER -> {"input_text"}

\* the args a completion may carry for a name: the declared ones, or a
\* record without (one of) the required fields
ArgsVariants(name) ==
    CASE name = "get_netbox_data_tool" ->
            {[api_url |-> "u"], [url |-> "u"]}
      [] name = "create_netbox_data_tool" ->
            {[api_url |-> "u", payload |-> "p"], [api_url |-> "u"], [payload |-> "p"]}
      [] OTHER ->
            {[input_text |-> "t"], [command |-> "t"]}

ArgsCalls(a) ==
    UNION {{[id |-> "id1", name |-> n, args |-> x] : x \in ArgsVariants(n)} :
              n \in Registry(a) \ {"device1_agent"}}

\* batches of one or two calls, ids id1 and id2 in this order
ArgsBatches(a) ==
    {<<c>> : c \in ArgsCalls(a)}
    \cup {<<c, [d EXCEPT !.id = "id2"]>> : <<c, d>> \in ArgsCalls(a) \X ArgsCalls(a)}

ArgsCompletions(a) ==
    [content : {"a"}, tool_calls : {<<>>} \cup ArgsBatches(a)]

\* call_llm, the completion drawn from ArgsCompletions
CallLLMArgs ==
    /\ node = "assistant"
    /\ steps < StepCap
    /\ \E response \in ArgsCompletions(agent) :
          LET r == call_llm(agent, messages, response)
          IN  /\ messages' = r.messages
              /\ next' = r.next
              /\ lastStep' = [kind |-> "call_llm", before |-> messages,
                              response |-> response]
    /\ \E m \in Successors(agent, "assistant") : node' = m
    /\ steps' = steps + 1
    /\ UNCHANGED <<agent, fault, result, cmd, url, reg, sess, nest, boot>>

ArgsStep ==
    /\ steps < MaxArgsSteps
    /\ (CallLLMArgs \/ CallTool)

NextArgs == ArgsStep \/ InvokeReturn

SpecArgs == Init /\ [][NextArgs]_vars

\* the calls of a batch that have a handler and all the declared fields
CompleteCalls(tool_calls) ==
    SelectSeq(tool_calls,
              LAMBDA c : c.name \in Registry(agent) /\ Required(c.name) \subseteq DOMAIN c.args)

LacksRequired(c) ==
    c.name \in Registry(agent) /\ ~(Required(c.name) \subseteq DOMAIN c.args)

\* C21: for a call whose args lack a required field (input_text, api_url,
\* payload) the Acting step does not invoke the handler with a value put in
\* its place and does not crash: it appends a tool turn for the call whose
\* payload is an error.
C21_MissingFieldYieldsError ==
    ActingReturned =>
        /\ Len(lastStep.log) = Len(CompleteCalls(lastStep.tool_calls))
        /\ \A i \in 1 .. Len(lastStep.tool_calls) :
              LacksRequired(lastStep.tool_calls[i]) =>
                  \E j \in 1 .. Len(Appended) :
                      /\ Appended[j].tool_call_id = lastStep.tool_calls[i].id
                      /\ "error" \in DOMAIN Appended[j].content.value


(***************************************************************************)
(* Properties of Spec: what a Reasoning step depends on                    *)
(***************************************************************************)
\* the tool_calls field of a turn, absent counted apart from empty
CallsField(m) ==
    IF "tool_calls" \in DOMAIN m THEN [present |-> TRUE, calls |-> m.tool_calls]
    ELSE [present |-> FALSE, calls |-> <<>>]

ActingFieldWhenReturned ==
    ActingReturned =>
        IF ToolCallsOf(lastStep.before) = <<>>
        THEN next = "end" /\ lastStep.log = <<>> /\ messages = lastStep.before
        ELSE next = "assistant"

\* C23: an Acting step goes to Done only when the last turn has no
\* tool_calls or an empty one, and then it invokes no handler and leaves
\* the conversation as it was; in every other case the step ends with
\* control at Reasoning.
C23_ActingToDoneOnlyWithoutCalls ==
    ActingDone =>
        IF ToolCallsOf(lastStep.before) = <<>>
        THEN next = "end" /\ lastStep.log = <<>> /\ messages = lastStep.before
        ELSE /\ ~lastStep.raised
             /\ next = "assistant"
             /\ node = "assistant"


(***************************************************************************)
(* Properties of SpecCmd: texts without a device prefix, connections       *)
(***************************************************************************)
\* the text begins with the name of a device followed by ":"
HasDevicePrefix(t) ==
    \E k \in 1 .. Len(t) :
        /\ t[k] = ":"
        /\ \E d \in DeviceNames, i \in 0 .. k, j \in 0 .. k :
              SubSeq(t, 1, k - 1) = Blanks(i) \o <<d>> \o Blanks(j)

\* holds: a text without any ":" runs as a whole on device2
NoColonRunsOnDefault ==
    (cmd.pc = "done" /\ \A k \in 1 .. Len(cmd.input_text) : cmd.input_text[k] # ":") =>
        /\ cmd.device_name = DefaultDevice
        /\ IsStripOf(cmd.command, cmd.input_text)

\* C24: a text given to run_command_tool that is a command without a
\* device prefix runs on the default device device2, and the command
\* passed to run_linux_command is the whole text, stripped; this holds for
\* every command, those containing ":" included.
C24_NoPrefixRunsWholeText ==
    (cmd.pc = "done" /\ cmd.via = "direct" /\ ~HasDevicePrefix(cmd.input_text)) =>
        /\ cmd.device_name = DefaultDevice
        /\ IsStripOf(cmd.command, cmd.input_text)

Did(op) == \E i \in 1 .. Len(cmd.out.ops) : cmd.out.ops[i] = op

\* holds: connect is called only on a device that is not connected, and a
\* call that runs to "completed" has disconnected the device
ConnectIfNeeded ==
    cmd.pc = "done" =>
        /\ Did("connect") => ~cmd.env.is_connected
        /\ cmd.out.ret.status = "completed" => (Did("disconnect") /\ ~cmd.out.connected)

\* C25: run_linux_command connects only when the device is not connected,
\* and whenever it returns after a connection was opened the device has
\* been disconnected, also when device.execute or device.connect failed:
\* no call leaves a connection open.
C25_NoConnectionLeftOpen ==
    cmd.pc = "done" =>
        /\ Did("connect") => ~cmd.env.is_connected
        /\ (Did("connect") /\ cmd.env.connect_ok) => ~cmd.out.connected


(***************************************************************************)
(* Properties of Spec: calls and their tool turns                          *)
(***************************************************************************)
\* the turn at position j answers a call of an assistant turn before it
AnswersEarlierCall(msgs, j) ==
    \E i \in 1 .. j - 1 :
        /\ msgs[i].role = "assistant"
        /\ "tool_calls" \in DOMAIN msgs[i]
        /\ \E k \in 1 .. Len(msgs[i].tool_calls) :
              /\ msgs[i].tool_calls[k].id = msgs[j].tool_call_id
              /\ msgs[i].tool_calls[k].name = msgs[j].name

\* holds: every tool turn answers a call of an earlier assistant turn
ToolTurnsAnswerCalls ==
    \A j \in 1 .. Len(messages) :
        messages[j].role = "tool" => AnswersEarlierCall(messages, j)

\* every call of the most recent assistant turn has a tool turn after it
LastCallsAnswered(msgs) ==
    AssistantIdx(msgs) # {} =>
        LET i == MaxOf(AssistantIdx(msgs))
        IN  \A k \in 1 .. Len(CallsField(msgs[i]).calls) :
                \E j \in i + 1 .. Len(msgs) :
                    /\ msgs[j].role = "tool"
                    /\ msgs[j].tool_call_id = msgs[i].tool_calls[k].id

\* C26: in every conversation each tool turn comes after an assistant turn
\* that holds a call with its id and name, and a Reasoning step never runs
\* on a conversation whose most recent assistant turn has a call with no
\* tool turn after it.
C26_CallsAndResultsCorrespond ==
    /\ \A j \in 1 .. Len(messages) :
          messages[j].role = "tool" => AnswersEarlierCall(messages, j)
    /\ lastStep.kind \in {"call_llm", "call_llm_failed"} =>
          LastCallsAnswered(lastStep.before)


(***************************************************************************)
(* SpecWait: init_netbox.py, wait_for_netbox and the first lines of main   *)
(***************************************************************************)
max_retries == 30

\* what becomes of one requests.get(f"{NETBOX_URL}/api/"): a response with
\* status 200, a response with another status, a RequestException, or, as
\* the call passes no timeout, no answer at all
Availability == {"200", "other status", "RequestException", "no answer"}

InitWait ==
    /\ InitLoopIdle
    /\ cmd = IdleCmd
    /\ url = IdleUrl
    /\ reg = IdleReg
    /\ sess = IdleSess
    /\ nest = IdleNest
    /\ boot = [pc |-> "for", attempt |-> 0, requests |-> 0, answers |-> 0,
               failed |-> 0, ret |-> "none", creates |-> 0]

\* for attempt in range(max_retries): requests.get(...)
WaitRequest ==
    /\ boot.pc = "for"
    /\ boot.attempt < max_retries
    /\ boot' = [boot EXCEPT !.pc = "get", !.requests = @ + 1]
    /\ UNCHANGED <<loopVars, cmd, url, reg, sess, nest>>

\* the request comes back, or never does
WaitAnswer ==
    /\ boot.pc = "get"
    /\ \E a \in Availability :
          boot' = CASE a = "200" ->
                         [boot EXCEPT !.pc = "returned", !.ret = "True", !.answers = @ + 1]
                    [] a = "no answer" -> [boot EXCEPT !.pc = "blocked"]
                    [] OTHER ->
                         [boot EXCEPT !.pc = "sleep", !.answers = @ + 1, !.failed = @ + 1]
    /\ UNCHANGED <<loopVars, cmd, url, reg, sess, nest>>

\* time.sleep(retry_interval), then the next attempt
WaitSleep ==
    /\ boot.pc = "sleep"
    /\ boot' = [boot EXCEPT !.pc = "for", !.attempt = @ + 1]
    /\ UNCHANGED <<loopVars, cmd, url, reg, sess, nest>>

\* the loop is exhausted: return False
WaitGiveUp ==
    /\ boot.pc = "for"
    /\ boot.attempt >= max_retries
    /\ boot' = [boot EXCEPT !.pc = "returned", !.ret = "False"]
    /\ UNCHANGED <<loopVars, cmd, url, reg, sess, nest>>

\* main: if not wait_for_netbox(): return
MainGateClosed ==
    /\ boot.pc = "returned"
    /\ boot.ret = "False"
    /\ boot' = [boot EXCEPT !.pc = "main returned"]
    /\ UNCHANGED <<loopVars, cmd, url, reg, sess, nest>>

\* main goes on: create_manufacturer() posts the first create request
MainCreates ==
    /\ boot.pc = "returned"
    /\ boot.ret = "True"
    /\ boot' = [boot EXCEPT !.pc = "creating", !.creates = @ + 1]
    /\ UNCHANGED <<loopVars, cmd, url, reg, sess, nest>>

NextWait ==
    \/ WaitRequest
    \/ WaitAnswer
    \/ WaitSleep
    \/ WaitGiveUp
    \/ MainGateClosed
    \/ MainCreates

SpecWait == InitWait /\ [][NextWait]_vars

\* holds: the counting part of wait_for_netbox
WaitCounts ==
    /\ boot.requests <= max_retries
    /\ boot.ret = "True" =>
          (boot.failed = boot.requests - 1 /\ boot.answers = boot.requests)
    /\ boot.ret = "False" => (boot.requests = max_retries /\ boot.failed = max_retries)
    /\ boot.failed = max_retries => boot.ret # "True"
    /\ boot.ret = "False" => boot.creates = 0

\* C27: wait_for_netbox terminates whatever the NetBox server does: every
\* availability request it makes comes to an end, it makes at most 30 of
\* them, returns True right after the first one answered with status 200,
\* returns False exactly when all 30 failed or had another status, and main
\* makes no create request after False.
C27_WaitTerminates ==
    /\ boot.pc # "blocked"
    /\ boot.requests <= max_retries
    /\ boot.ret = "True" =>
          (boot.failed = boot.requests - 1 /\ boot.answers = boot.requests)
    /\ boot.ret = "False" => (boot.requests = max_retries /\ boot.failed = max_retries)
    /\ boot.failed = max_retries => boot.ret # "True"
    /\ boot.ret = "False" => boot.creates = 0


(***************************************************************************)
(* SpecDevice: init_netbox.py, create_device and the device loop of main,  *)
(* run repeatedly against one NetBox                                       *)
(***************************************************************************)
MaxRuns == 2

\* testbed.get('devices', {}).items(), in file order
DevicesOfTestbed == <<"device1", "device2">>

\* the GET of the existence check: a 200 response (whose count is the
\* number of devices NetBox holds under the name), another status, or an
\* exception (from the request or from reading the body)
CheckAnswers == {"200", "other status", "exception"}

\* the POST of the create request
PostAnswers == {"201", "other status", "exception"}

\* create_device against a NetBox holding `held` devices under the name:
\* the value returned, whether a POST was issued, and the number held after
create_device(held, get, post) ==
    IF get = "200" /\ held > 0
    THEN [ret |-> "existing id", posted |-> FALSE, held |-> held]
    ELSE IF post = "201"
         THEN [ret |-> "new id", posted |-> TRUE, held |-> held + 1]
         ELSE [ret |-> "None", posted |-> TRUE, held |-> held]

InitDevice ==
    /\ InitLoopIdle
    /\ cmd = IdleCmd
    /\ url = IdleUrl
    /\ reg = IdleReg
    /\ sess = IdleSess
    /\ nest = IdleNest
    /\ boot = [pc |-> "devices", run |-> 1, i |-> 1,
               store |-> [n \in {DevicesOfTestbed[k] : k \in DOMAIN DevicesOfTestbed} |-> 0],
               last |-> [name |-> "none", existed |-> FALSE, get |-> "none",
                         posted |-> FALSE, ret |-> "none"]]

\* one round of main's loop: create_device_type, then create_device if it
\* gave an id
ProcessDevice ==
    /\ boot.pc = "devices"
    /\ boot.i <= Len(DevicesOfTestbed)
    /\ LET name == DevicesOfTestbed[boot.i]
           held == boot.store[name]
       IN \E device_type_id \in {"id", "None"}, get \in CheckAnswers, post \in PostAnswers :
            IF device_type_id = "None"
            THEN boot' = [boot EXCEPT !.i = @ + 1,
                            !.last = [name |-> name, existed |-> held > 0, get |-> "none",
                                      posted |-> FALSE, ret |-> "none"]]
            ELSE LET r == create_device(held, get, post)
                 IN boot' = [boot EXCEPT !.i = @ + 1,
                               !.store[name] = r.held,
                               !.last = [name |-> name, existed |-> held > 0, get |-> get,
                                         posted |-> r.posted, ret |-> r.ret]]
    /\ UNCHANGED <<loopVars, cmd, url, reg, sess, nest>>

\* the loop is over: main returns
MainReturns ==
    /\ boot.pc = "devices"
    /\ boot.i > Len(DevicesOfTestbed)
    /\ boot' = [boot EXCEPT !.pc = "main returned"]
    /\ UNCHANGED <<loopVars, cmd, url, reg, sess, nest>>

\* the initialisation is run once more against the same NetBox
RunAgain ==
    /\ boot.pc = "main returned"
    /\ boot.run < MaxRuns
    /\ boot' = [boot EXCEPT !.pc = "devices", !.run = @ + 1, !.i = 1]
    /\ UNCHANGED <<loopVars, cmd, url, reg, sess, nest>>

NextDevice ==
    \/ ProcessDevice
    \/ MainReturns
    \/ RunAgain

SpecDevice == InitDevice /\ [][NextDevice]_vars

\* holds: when the existence check is answered 200 with a positive count,
\* no POST is issued and the existing id is returned
FoundDeviceIsReturned ==
    (boot.last.existed /\ boot.last.get = "200") =>
        (~boot.last.posted /\ boot.last.ret = "existing id")

\* C28: create_device issues no POST for a device name NetBox already
\* holds and returns the existing device's id instead, so that NetBox holds
\* at most one device per name however often the initialisation runs, also
\* when the existence check fails or has another status than 200.
C28_NoCreateForExistingName ==
    /\ (boot.last.existed /\ boot.last.get # "none") =>
          (~boot.last.posted /\ boot.last.ret = "existing id")
    /\ \A n \in DOMAIN boot.store : boot.store[n] <= 1

=============================================================================
